---- MODULE Spec2Model ----
(***************************************************************************)
(* Model of the CSplan client's login / registration / master-key custody  *)
(* code (LoginActions and RegisterActions) together with the worker, the   *)
(* server and the two browser stores it talks to.                          *)
(*                                                                         *)
(* One RegisterActions instance is modelled.  Run 0 is the caller's        *)
(* sequence of awaited calls; runs 1..MaxBg are the authenticate runs that *)
(* register starts and does not await.  Every action is one synchronous    *)
(* segment of an async method: the code between two awaits that touch      *)
(* shared state.                                                           *)
(*                                                                         *)
(* Byte strings are sequences of naturals whose head is a constructor tag: *)
(*   <<1,p>> password      <<2,p,s,tc,mc,th,len>> argon2 output            *)
(*   <<3,n>> \o a \o b  ABconcat(a,b), n = Len(a)                          *)
(*   <<4>> \o x  encode(x) <<5,k>> \o tk  private key k wrapped under tk   *)
(*   <<6,c>> \o ak  AES-CTR decryption of ciphertext c under ak            *)
(*   <<7,k>> public key    <<8,k>> private key   <<9,k>> exported public   *)
(*   <<10>> \o m  imported AES-GCM key   <<11>> \o m  imported AES-CTR key *)
(*   <<12,c>> challenge payload          <<13,s>> salt                     *)
(***************************************************************************)
EXTENDS Integers, Sequences, FiniteSets, TLC

\* ------------------------------------------------------------------ bounds
MaxOps == 3
MaxBg == 1
MaxNameCalls == 4

\* ----------------------------------------------------------- program data
AUTHKEY_SIZE == 32

Emails == {1}
Passwords == {1}
Totps == {0}
Salts == {1, 2}
UserIds == {1}
Tokens == {1}
KeyIds == {1}
NoToken == 0

RunIds == 0 .. MaxBg
BgIds == 1 .. MaxBg
\* one challenge id for each authenticate run that can be in progress at once
ChallengeIds == 1 .. (MaxBg + 1)

DefaultHashParams ==
  [type |-> "argon2i", timeCost |-> 1, memoryCost |-> 128 * 1024, threads |-> 1, saltLen |-> 16]
ServerHashParams ==
  [type |-> "argon2i", timeCost |-> 2, memoryCost |-> 64 * 1024, threads |-> 2, saltLen |-> 16]
ParamSets == {DefaultHashParams, ServerHashParams}
NoParams ==
  [type |-> "", timeCost |-> 0, memoryCost |-> 0, threads |-> 0, saltLen |-> 0]

ServerMsgs == {"", "server message"}

\* ------------------------------------------------------- pure conversions
PasswordBytes(p) == <<1, p>>
SaltBytes(s) == <<13, s>>
ByteLength(salt) == 16

Argon2Hash(pw, salt, tc, mc, th, hashLen) == <<2, pw, salt[2], tc, mc, th, hashLen>>

ABconcat(a, b) == <<3, Len(a)>> \o a \o b
encode(x) == <<4>> \o x
decode(y) == IF Len(y) > 0 /\ y[1] = 4 THEN Tail(y) ELSE <<>>

importKeyMaterial(m) == <<10>> \o m
importKeyCTR(m) == <<11>> \o m
decryptCTR(key, encrypted) == <<6, encrypted[2]>> \o Tail(key)

generatePublicKey(k) == <<7, k>>
generatePrivateKey(k) == <<8, k>>
exportPublicKey(pub) == <<9, pub[2]>>
importPublicKey(spki) == <<7, spki[2]>>
wrapPrivateKey(priv, tempKey) == <<5, priv[2]>> \o Tail(tempKey)
UnwrapOK(wrapped, tempKey) == SubSeq(wrapped, 3, Len(wrapped)) = Tail(tempKey)
unwrapPrivateKey(wrapped, tempKey) ==
  IF UnwrapOK(wrapped, tempKey) THEN <<8, wrapped[2]>> ELSE <<>>

\* The secrets a byte string gives away to whoever reads it: passwords,
\* argon2 outputs and plaintext private keys, also inside a concatenation or
\* an encoding.  Ciphertexts (tags 5 and 6) give nothing away.
RECURSIVE Reveals(_)
Reveals(x) ==
  IF Len(x) = 0 THEN {}
  ELSE IF x[1] \in {1, 2, 8} THEN {x}
  ELSE IF x[1] = 3 THEN Reveals(SubSeq(x, 3, 2 + x[2])) \cup Reveals(SubSeq(x, 3 + x[2], Len(x)))
  ELSE IF x[1] \in {4, 10, 11} THEN Reveals(Tail(x))
  ELSE {}

\* ------------------------------------------------------------------ state
VARIABLES
  hashParams,       \* this.hashParams
  authKeyMaterial,  \* this.authKeyMaterial, <<>> is null
  token,            \* localStorage['CSRF-Token'], NoToken is absent
  user,             \* userStore's logged-in identity
  keys,             \* the local 'keys' object store, by id
  idb,              \* addToStore calls issued and not yet committed
  worker,           \* [loaded, reqs]: the argon2 worker and its unanswered requests
  srvKeys,          \* the record POST /keys stored on the server
  run,              \* the calls in progress, by run id
  registered,       \* the salt of the latest registration the server accepted, <<>> if none
  nops,             \* number of calls the caller has made
  initialized,      \* the user-name store's initialized flag
  userName,         \* the user-name store's value
  userNames,        \* the local 'user-name' object store, by id
  srvName,          \* the name document the server holds for the user
  nameCall,         \* the call of a user-name store method in progress
  completed,        \* whether some init call has completed without error
  ncalls            \* number of calls made to the user-name store

nameVars == <<initialized, userName, userNames, srvName, nameCall, completed, ncalls>>
loginVars == <<hashParams, authKeyMaterial, token, user, keys, idb, worker, srvKeys, run, registered, nops>>
vars == <<hashParams, authKeyMaterial, token, user, keys, idb, worker, srvKeys, run, registered, nops,
          initialized, userName, userNames, srvName, nameCall, completed, ncalls>>

NoUser == [email |-> 0, id |-> 0]
NoChallenge == [id |-> 0, data |-> <<>>, salt |-> <<>>, hashParams |-> NoParams]
\* what authenticate still reads of the challenge once it has adopted the
\* hash parameters and decoded the salt: its id and its data
Kept(ch) == [NoChallenge EXCEPT !.id = ch.id, !.data = ch.data]
NoKeys == [publicKey |-> <<>>, privateKey |-> <<>>, hashSalt |-> <<>>, hashParams |-> NoParams]
NoEntry == [publicKey |-> <<>>, privateKey |-> <<>>]

NoReq ==
  [kind |-> "none", email |-> 0, totp |-> 0, cid |-> 0, csrf |-> NoToken,
   key |-> <<>>, data |-> <<>>, publicKey |-> <<>>, privateKey |-> <<>>,
   hashSalt |-> <<>>, hashParams |-> NoParams, from |-> 0, op |-> "none"]

IdleRun ==
  [op |-> "none", pc |-> "idle", seq |-> 0, parent |-> 0,
   email |-> 0, pw |-> 0, totp |-> 0, reuse |-> FALSE, salt |-> <<>>,
   ch |-> NoChallenge, mk |-> NoKeys, key |-> <<>>, kp |-> 0, hashed |-> NoParams,
   req |-> NoReq, reqStatus |-> 0, subStatus |-> 0, code |-> "none", outcome |-> "pending", msg |-> "",
   nReq |-> 0, nHash |-> 0, nSubmit |-> 0, wrote |-> {}]

\* ---------------------------------------------- user-name store: its data
Checksums == {1, 2}
\* a Name as far as init tells one from another: whose it is and its checksum
initialState == [id |-> 0, checksum |-> 0]
NoDocument == [checksum |-> 0, encrypted |-> FALSE]
Documents == {[checksum |-> c, encrypted |-> e] : c \in Checksums, e \in BOOLEAN}
NameStatuses == {200, 204, 500}
IdleCall ==
  [op |-> "none", pc |-> "idle", userID |-> 0, document |-> NoDocument, final |-> initialState,
   status |-> 0, outcome |-> "pending", msg |-> "", fetched |-> FALSE, after |-> FALSE]
\* the store as create() builds it, on a client with nothing cached
NameFresh ==
  /\ initialized = FALSE
  /\ userName = initialState
  /\ userNames = [i \in {0} \cup UserIds |-> initialState]
  /\ srvName = NoDocument
  /\ nameCall = IdleCall
  /\ completed = FALSE
  /\ ncalls = 0

Init ==
  /\ NameFresh
  /\ hashParams = DefaultHashParams
  /\ authKeyMaterial = <<>>
  /\ token = NoToken
  /\ user = NoUser
  /\ keys = [i \in {0} \cup UserIds |-> NoEntry]
  /\ idb = {}
  /\ worker \in {[loaded |-> l, reqs |-> {}] : l \in BOOLEAN}
  /\ srvKeys = NoKeys
  /\ run = [r \in RunIds |-> IdleRun]
  /\ registered = <<>>
  /\ nops = 0

\* ---------------------------------------------------------------- helpers
Settled(r) == run[r].pc \in {"idle", "done"}
CallerMay == Settled(0) /\ nops < MaxOps

\* The caller makes its next call: run 0 is the new call.  A background run
\* that has settled is dropped (nothing holds its promise) and frees its slot.
Called(rec) == [r \in RunIds |-> IF r = 0 THEN rec ELSE IF run[r].pc = "done" THEN IdleRun ELSE run[r]]

NewRun(op, seq, parent) == [IdleRun EXCEPT !.op = op, !.pc = "start", !.seq = seq, !.parent = parent]

\* a settled call: its locals are gone, what it did and returned is kept
Returned(rec) ==
  [rec EXCEPT !.pc = "done", !.email = 0, !.pw = 0, !.totp = 0, !.salt = <<>>, !.ch = NoChallenge,
              !.mk = NoKeys, !.key = <<>>, !.kp = 0, !.hashed = NoParams, !.req = NoReq]
Resolve(rec, outcome) == [Returned(rec) EXCEPT !.outcome = outcome]
Reject(rec, m) == [Returned(rec) EXCEPT !.outcome = "rejected", !.msg = m]

ErrorMessage(serverMsg, fallback) == IF serverMsg # "" THEN serverMsg ELSE fallback

\* hashPassword's message to the worker; hp is this.hashParams as the call reads it
HashRequest(r, password, salt, hp) ==
  [owner |-> r, action |-> "Hash2i", password |-> password, salt |-> salt,
   timeCost |-> hp.timeCost, memoryCost |-> hp.memoryCost,
   threads |-> hp.threads, hashLen |-> AUTHKEY_SIZE]
LoadRequest(r) ==
  [owner |-> r, action |-> "LoadArgon2", password |-> 0, salt |-> <<>>,
   timeCost |-> 0, memoryCost |-> 0, threads |-> 0, hashLen |-> 0]

\* faulty variant: the code of the worker's answer is not looked at
Argon2Failed_Unchecked(ok) == FALSE
\* message.code !== Argon2_ErrorCodes.ARGON2_OK
Argon2Failed(ok) == ~ok
\* the run has the worker's answer
Answered(rec, ok) == [rec EXCEPT !.code = IF ok THEN "ARGON2_OK" ELSE "error"]

HashOf(q) == Argon2Hash(q.password, q.salt, q.timeCost, q.memoryCost, q.threads, q.hashLen)
RequestOf(r) == CHOOSE q \in worker.reqs : q.owner = r
Outstanding == {q \in worker.reqs : q.action = "Hash2i"}

ChallengeStatuses == {201, 412, 500}
SubmitStatuses == {200, 401, 500}
RegisterStatuses == {201, 500}
KeysPostStatuses == {201, 500}
KeysGetStatuses == {200, 500}
Challenges ==
  {[id |-> i, data |-> encode(<<12, 1>>), salt |-> encode(SaltBytes(s)), hashParams |-> hp] :
     i \in ChallengeIds, s \in Salts, hp \in ParamSets}

\* ----------------------------------------------------------- loadArgon2
loadArgon2 ==
  /\ CallerMay
  /\ nops' = nops + 1
  /\ run' = Called([NewRun("loadArgon2", nops + 1, 0) EXCEPT !.pc = "awaitLoad"])
  /\ worker' = [worker EXCEPT !.reqs = @ \cup {LoadRequest(0)}]
  /\ UNCHANGED <<hashParams, authKeyMaterial, token, user, keys, idb, srvKeys, registered, nameVars>>

loadArgon2Response ==
  /\ run[0].pc = "awaitLoad"
  /\ \E ok \in BOOLEAN :
       /\ worker' = [loaded |-> (worker.loaded \/ ok), reqs |-> worker.reqs \ {RequestOf(0)}]
       /\ run' = [run EXCEPT ![0] =
                    IF ~Argon2Failed(ok) THEN Resolve(Answered(@, ok), "resolved")
                    ELSE Reject(Answered(@, ok), "Error loading argon2.")]
  /\ UNCHANGED <<hashParams, authKeyMaterial, token, user, keys, idb, srvKeys, nops, registered, nameVars>>

\* --------------------------------------------------------- authenticate
\* faulty variant: the body is the whole user object, password included
ChallengeRequestBody_WholeUser(r, email, password, totp) ==
  [NoReq EXCEPT !.kind = "challenge-request", !.email = email, !.totp = totp,
                !.data = PasswordBytes(password), !.from = r, !.op = "authenticate"]

\* { email: user.email, totp: user.totp } of the user passed to authenticate
ChallengeRequestBody(r, email, password, totp) ==
  [NoReq EXCEPT !.kind = "challenge-request", !.email = email, !.totp = totp,
                !.from = r, !.op = "authenticate"]

SolvedChallengeBody(r, ch, decrypted) ==
  [NoReq EXCEPT !.kind = "challenge-submit", !.cid = ch.id, !.data = encode(decrypted),
                !.from = r, !.op = "authenticate"]

\* authenticate up to its first await: the challenge request is on the wire
AuthStarted(r, rec, email, pw, totp, reuse) ==
  [rec EXCEPT !.op = "authenticate", !.pc = "awaitChallenge", !.email = email, !.pw = pw,
              !.totp = totp, !.reuse = reuse, !.nReq = @ + 1,
              !.req = ChallengeRequestBody(r, email, pw, totp)]

authenticate ==
  /\ CallerMay
  /\ \E email \in Emails, pw \in Passwords, totp \in Totps, reuse \in BOOLEAN :
       run' = Called(AuthStarted(0, NewRun("authenticate", nops + 1, 0), email, pw, totp, reuse))
  /\ nops' = nops + 1
  /\ UNCHANGED <<hashParams, authKeyMaterial, token, user, keys, idb, worker, srvKeys, registered, nameVars>>

\* faulty variant: null key material is imported like any other
Solved_NullImported(r, rec, material) ==
  [rec EXCEPT !.pc = "awaitSubmit", !.nSubmit = @ + 1, !.key = material,
              !.req = SolvedChallengeBody(r, rec.ch, <<6, decode(rec.ch.data)[2]>>)]

\* From importKey(raw, this.authKeyMaterial!) to the submit fetch: the key
\* material is read once, the rest works on locals.  importKey rejects null.
Solved(r, rec, material) ==
  IF material = <<>>
    THEN Reject(rec, "TypeError")
    ELSE LET authKey == importKeyCTR(material)
             decrypted == decryptCTR(authKey, decode(rec.ch.data))
         IN [rec EXCEPT !.pc = "awaitSubmit", !.nSubmit = @ + 1, !.key = material,
                        !.req = SolvedChallengeBody(r, rec.ch, decrypted)]

\* faulty variant: 412 is not told apart from the other failures
TOTPRequired_Unhandled(status) == FALSE
TOTPRequired(status) == status = 412
\* faulty variant: the status of the challenge response is not looked at
ChallengeIssued_AnyStatus(status) == TRUE
ChallengeIssued(status) == status = 201

\* The server numbers its challenges, so two challenges that are open at
\* once have different ids: the one run r receives is numbered r + 1.
IssuedTo(r) == {ch \in Challenges : ch.id = r + 1}

\* faulty variant: the key is derived again whatever the caller asked for
ReuseAuthKey_Ignored(rec) == FALSE
\* if (reuseAuthKey)
ReuseAuthKey(rec) == rec.reuse

\* faulty variant: the challenge's parameters are not adopted
AdoptedParams_Stale(ch) == hashParams
\* this.hashParams = challenge.hashParams, which hashPassword then reads
AdoptedParams(ch) == ch.hashParams

authenticateChallenge(r) ==
  /\ run[r].op = "authenticate" /\ run[r].pc = "awaitChallenge"
  /\ \E status \in ChallengeStatuses :
       LET rec == [run[r] EXCEPT !.reqStatus = status, !.req = NoReq] IN
       \/ /\ TOTPRequired(status)
          /\ run' = [run EXCEPT ![r] = Resolve(rec, "TOTPRequired")]
          /\ UNCHANGED <<hashParams, worker>>
       \/ /\ ~TOTPRequired(status) /\ ~ChallengeIssued(status)
          /\ \E m \in ServerMsgs :
               run' = [run EXCEPT ![r] =
                         Reject(rec, ErrorMessage(m, "Unknown error requesting an auth challenge"))]
          /\ UNCHANGED <<hashParams, worker>>
       \/ /\ ~TOTPRequired(status) /\ ChallengeIssued(status)
          /\ \E ch \in IssuedTo(r) :
               /\ hashParams' = AdoptedParams(ch)
               /\ IF ReuseAuthKey(rec)
                    THEN /\ run' = [run EXCEPT ![r] =
                                      Solved(r, [rec EXCEPT !.ch = Kept(ch), !.wrote = @ \cup {"hashParams"}],
                                             authKeyMaterial)]
                         /\ UNCHANGED worker
                    ELSE /\ run' = [run EXCEPT ![r] =
                                      [rec EXCEPT !.ch = ch, !.pc = "awaitHash", !.nHash = @ + 1,
                                                  !.hashed = AdoptedParams(ch),
                                                  !.wrote = @ \cup {"hashParams"}]]
                         /\ worker' = [worker EXCEPT !.reqs = @ \cup
                                         {HashRequest(r, rec.pw, decode(ch.salt), AdoptedParams(ch))}]
  /\ UNCHANGED <<authKeyMaterial, token, user, keys, idb, srvKeys, nops, registered, nameVars>>

\* faulty variant: a worker that is not loaded answers nothing at all
WorkerAnswers_OnlyLoaded(ok) == worker.loaded
\* the worker answers a hash request: ARGON2_OK only from a loaded worker
WorkerAnswers(ok) == ok => worker.loaded

authenticateHash(r) ==
  /\ run[r].op = "authenticate" /\ run[r].pc = "awaitHash"
  /\ \E ok \in BOOLEAN :
       /\ WorkerAnswers(ok)
       /\ worker' = [worker EXCEPT !.reqs = @ \ {RequestOf(r)}]
       /\ IF ~Argon2Failed(ok)
            THEN /\ authKeyMaterial' = HashOf(RequestOf(r))
                 /\ run' = [run EXCEPT ![r] =
                              Solved(r, [Answered(@, ok) EXCEPT !.ch = Kept(@),
                                                                !.wrote = @ \cup {"authKeyMaterial"}],
                                     HashOf(RequestOf(r)))]
            ELSE /\ run' = [run EXCEPT ![r] = Reject(Answered(@, ok), "Error running argon2.")]
                 /\ UNCHANGED authKeyMaterial
  /\ UNCHANGED <<hashParams, token, user, keys, idb, srvKeys, nops, registered, nameVars>>

\* faulty variant: 401 is not told apart from the other failures
IncorrectPassword_Unhandled(status) == FALSE
IncorrectPassword(status) == status = 401
\* faulty variant: every status but 401 is taken for success
SubmitAccepted_AnyOther(status) == status # 401
SubmitAccepted(status) == status = 200
IncorrectPasswordMessage == "Authentication failure, password is incorrect."

authenticateSubmit(r) ==
  /\ run[r].op = "authenticate" /\ run[r].pc = "awaitSubmit"
  /\ \E status \in SubmitStatuses :
       LET rec == [run[r] EXCEPT !.subStatus = status, !.req = NoReq] IN
       \/ /\ IncorrectPassword(status)
          /\ run' = [run EXCEPT ![r] = Reject(rec, IncorrectPasswordMessage)]
          /\ UNCHANGED <<token, user>>
       \/ /\ ~IncorrectPassword(status) /\ ~SubmitAccepted(status)
          /\ \E m \in ServerMsgs :
               run' = [run EXCEPT ![r] = Reject(rec, ErrorMessage(m, "Error submitting challenge."))]
          /\ UNCHANGED <<token, user>>
       \/ /\ ~IncorrectPassword(status) /\ SubmitAccepted(status)
          /\ \E id \in UserIds, tok \in Tokens :
               /\ token' = tok
               /\ user' = [email |-> rec.email, id |-> id]
               /\ run' = [run EXCEPT ![r] =
                            Resolve([rec EXCEPT !.wrote = @ \cup {"token", "user"}], "Success")]
  /\ UNCHANGED <<hashParams, authKeyMaterial, keys, idb, worker, srvKeys, nops, registered, nameVars>>

\* ------------------------------------------------------------- register
FreeBg == {b \in BgIds : run[b].pc \in {"idle", "done"}}

RegisterKey(salt, akm) == encode(ABconcat(salt, akm))

RegisterRequestBody(r, email, salt, akm, hp) ==
  [NoReq EXCEPT !.kind = "register", !.email = email, !.key = RegisterKey(salt, akm),
                !.hashParams = hp, !.from = r, !.op = "register"]

register ==
  /\ CallerMay /\ FreeBg # {}
  /\ \E email \in Emails, pw \in Passwords, s \in Salts :
       /\ run' = Called([NewRun("register", nops + 1, 0) EXCEPT
                            !.pc = "awaitHash", !.email = email, !.pw = pw, !.salt = SaltBytes(s),
                            !.nHash = 1, !.hashed = hashParams])
       /\ worker' = [worker EXCEPT !.reqs = @ \cup {HashRequest(0, pw, SaltBytes(s), hashParams)}]
  /\ nops' = nops + 1
  /\ UNCHANGED <<hashParams, authKeyMaterial, token, user, keys, idb, srvKeys, registered, nameVars>>

registerHash ==
  /\ run[0].op = "register" /\ run[0].pc = "awaitHash"
  /\ \E ok \in BOOLEAN :
       /\ WorkerAnswers(ok)
       /\ worker' = [worker EXCEPT !.reqs = @ \ {RequestOf(0)}]
       /\ IF ~Argon2Failed(ok)
            THEN LET akm == HashOf(RequestOf(0))
                     hp == [hashParams EXCEPT !.saltLen = ByteLength(run[0].salt)]
                 IN /\ authKeyMaterial' = akm
                    /\ hashParams' = hp
                    /\ run' = [run EXCEPT ![0] =
                                 [Answered(@, ok) EXCEPT !.pc = "awaitRegister", !.key = akm, !.nReq = @ + 1,
                                           !.req = RegisterRequestBody(0, run[0].email, run[0].salt, akm, hp),
                                           !.wrote = @ \cup {"authKeyMaterial", "hashParams"}]]
            ELSE /\ run' = [run EXCEPT ![0] = Reject(Answered(@, ok), "Error running argon2.")]
                 /\ UNCHANGED <<authKeyMaterial, hashParams>>
  /\ UNCHANGED <<token, user, keys, idb, srvKeys, nops, registered, nameVars>>

Registered(status) == status = 201
\* the reuseAuthKey argument of the authenticate call that register makes
\* faulty variant: the login started by register derives the key again
RegisterReusesAuthKey_Rederive == FALSE
RegisterReusesAuthKey == TRUE

registerResponse ==
  /\ run[0].op = "register" /\ run[0].pc = "awaitRegister"
  /\ \E status \in RegisterStatuses :
       \/ /\ ~Registered(status)
          /\ \E m \in ServerMsgs :
               run' = [run EXCEPT ![0] = Reject(@, ErrorMessage(m, "Failed to register account"))]
          /\ UNCHANGED <<token, user, registered>>
       \/ /\ Registered(status)
          /\ \E id \in UserIds, tok \in Tokens :
               LET b == CHOOSE x \in FreeBg : \A y \in FreeBg : x <= y IN
               /\ user' = [email |-> run[0].email, id |-> id]
               /\ token' = tok
               /\ registered' = run[0].salt
               \* this.authenticate(user, true) runs to its first await, then register returns
               /\ run' = [run EXCEPT
                            ![0] = Resolve([@ EXCEPT !.wrote = @ \cup {"token", "user"}], "resolved"),
                            ![b] = AuthStarted(b, NewRun("authenticate", run[0].seq, run[0].seq),
                                               run[0].email, run[0].pw, run[0].totp,
                                               RegisterReusesAuthKey)]
  /\ UNCHANGED <<hashParams, authKeyMaterial, keys, idb, worker, srvKeys, nops, nameVars>>

\* ------------------------------------------------ generateMasterKeypair
\* faulty variant: the private key is exported without being wrapped
MasterKeysBody_Unwrapped(r, publicKey, privateKey, tempKey, salt, hp, csrf) ==
  [NoReq EXCEPT !.kind = "keys-post", !.csrf = csrf,
                !.publicKey = exportPublicKey(publicKey),
                !.privateKey = privateKey,
                !.hashSalt = encode(salt), !.hashParams = hp,
                !.from = r, !.op = "generateMasterKeypair"]

MasterKeysBody(r, publicKey, privateKey, tempKey, salt, hp, csrf) ==
  [NoReq EXCEPT !.kind = "keys-post", !.csrf = csrf,
                !.publicKey = exportPublicKey(publicKey),
                !.privateKey = wrapPrivateKey(privateKey, tempKey),
                !.hashSalt = encode(salt), !.hashParams = hp,
                !.from = r, !.op = "generateMasterKeypair"]

StoredKeys(req) ==
  [publicKey |-> req.publicKey, privateKey |-> req.privateKey,
   hashSalt |-> req.hashSalt, hashParams |-> req.hashParams]

generateMasterKeypair ==
  /\ CallerMay
  /\ \E pw \in Passwords, s \in Salts :
       /\ run' = Called([NewRun("generateMasterKeypair", nops + 1, 0) EXCEPT
                            !.pc = "awaitHash", !.pw = pw, !.salt = SaltBytes(s),
                            !.nHash = 1, !.hashed = hashParams])
       /\ worker' = [worker EXCEPT !.reqs = @ \cup {HashRequest(0, pw, SaltBytes(s), hashParams)}]
  /\ nops' = nops + 1
  /\ UNCHANGED <<hashParams, authKeyMaterial, token, user, keys, idb, srvKeys, registered, nameVars>>

generateHash ==
  /\ run[0].op = "generateMasterKeypair" /\ run[0].pc = "awaitHash"
  /\ \E ok \in BOOLEAN :
       /\ WorkerAnswers(ok)
       /\ worker' = [worker EXCEPT !.reqs = @ \ {RequestOf(0)}]
       /\ IF ~Argon2Failed(ok)
            THEN \E k \in KeyIds :
                   run' = [run EXCEPT ![0] =
                             [Answered(@, ok) EXCEPT !.pc = "wrapping", !.key = HashOf(RequestOf(0)), !.kp = k]]
            ELSE run' = [run EXCEPT ![0] = Reject(Answered(@, ok), "Error running argon2.")]
  /\ UNCHANGED <<hashParams, authKeyMaterial, token, user, keys, idb, srvKeys, nops, registered, nameVars>>

\* after the keypair is generated, exported and wrapped: the token check and POST /keys
generatePost ==
  /\ run[0].op = "generateMasterKeypair" /\ run[0].pc = "wrapping"
  /\ IF token = NoToken
       THEN run' = [run EXCEPT ![0] =
                      Reject(@, "Failed to retrieve CSRF-Token from localstorage.")]
       ELSE LET body == MasterKeysBody(0, generatePublicKey(run[0].kp), generatePrivateKey(run[0].kp),
                                       importKeyMaterial(run[0].key), run[0].salt, hashParams, token)
            IN run' = [run EXCEPT ![0] =
                         [@ EXCEPT !.pc = "awaitKeysPost", !.mk = StoredKeys(body), !.req = body,
                                   !.nReq = @ + 1]]
  /\ UNCHANGED <<hashParams, authKeyMaterial, token, user, keys, idb, worker, srvKeys, nops, registered, nameVars>>

\* faulty variant: the status of POST /keys is not looked at
KeysStored_AnyStatus(status) == TRUE
KeysStored(status) == status = 201

StoreRequest(r, awaited) ==
  [owner |-> r, seq |-> run[r].seq, awaited |-> awaited, id |-> user.id,
   publicKey |-> generatePublicKey(run[r].kp), privateKey |-> generatePrivateKey(run[r].kp)]

generateResponse ==
  /\ run[0].op = "generateMasterKeypair" /\ run[0].pc = "awaitKeysPost"
  /\ \E status \in KeysPostStatuses :
       LET rec == [run[0] EXCEPT !.reqStatus = status] IN
       \/ /\ ~KeysStored(status)
          /\ \E m \in ServerMsgs :
               run' = [run EXCEPT ![0] = Reject(rec, ErrorMessage(m, "Failed to store master keypair"))]
          /\ UNCHANGED <<srvKeys, idb>>
       \/ /\ KeysStored(status)
          /\ srvKeys' = run[0].mk
          \* db.addToStore is called and not awaited
          /\ idb' = idb \cup {StoreRequest(0, FALSE)}
          /\ run' = [run EXCEPT ![0] = Resolve(rec, "resolved")]
  /\ UNCHANGED <<hashParams, authKeyMaterial, token, user, keys, worker, nops, registered, nameVars>>

\* ------------------------------------------------ retrieveMasterKeypair
KeysGetBody(r, csrf) ==
  [NoReq EXCEPT !.kind = "keys-get", !.csrf = csrf, !.from = r, !.op = "retrieveMasterKeypair"]

retrieveMasterKeypair ==
  /\ CallerMay
  /\ \E pw \in Passwords :
       run' = Called([NewRun("retrieveMasterKeypair", nops + 1, 0) EXCEPT
                        !.pc = "awaitKeysGet", !.pw = pw, !.nReq = 1, !.req = KeysGetBody(0, token)])
  /\ nops' = nops + 1
  /\ UNCHANGED <<hashParams, authKeyMaterial, token, user, keys, idb, worker, srvKeys, registered, nameVars>>

KeysFetched(status) == status = 200

retrieveResponse ==
  /\ run[0].op = "retrieveMasterKeypair" /\ run[0].pc = "awaitKeysGet"
  /\ \E status \in KeysGetStatuses :
       \/ /\ ~KeysFetched(status)
          /\ \E m \in ServerMsgs :
               run' = [run EXCEPT ![0] = Reject(@, ErrorMessage(m, "Failed to fetch master keypair"))]
          /\ UNCHANGED <<hashParams, worker>>
       \/ /\ KeysFetched(status) /\ srvKeys # NoKeys
          /\ hashParams' = srvKeys.hashParams
          /\ worker' = [worker EXCEPT !.reqs = @ \cup
                          {HashRequest(0, run[0].pw, decode(srvKeys.hashSalt), srvKeys.hashParams)}]
          /\ run' = [run EXCEPT ![0] =
                       [@ EXCEPT !.pc = "awaitHash", !.mk = srvKeys, !.nHash = 1, !.req = NoReq,
                                 !.hashed = srvKeys.hashParams, !.wrote = @ \cup {"hashParams"}]]
  /\ UNCHANGED <<authKeyMaterial, token, user, keys, idb, srvKeys, nops, registered, nameVars>>

retrieveHash ==
  /\ run[0].op = "retrieveMasterKeypair" /\ run[0].pc = "awaitHash"
  /\ \E ok \in BOOLEAN :
       /\ WorkerAnswers(ok)
       /\ worker' = [worker EXCEPT !.reqs = @ \ {RequestOf(0)}]
       /\ run' = [run EXCEPT ![0] =
                    IF ~Argon2Failed(ok)
                      THEN [Answered(@, ok) EXCEPT !.pc = "unwrapping", !.key = HashOf(RequestOf(0))]
                      ELSE Reject(Answered(@, ok), "Error running argon2.")]
  /\ UNCHANGED <<hashParams, authKeyMaterial, token, user, keys, idb, srvKeys, nops, registered, nameVars>>

\* importKeyMaterial, unwrapPrivateKey, then the awaited db.addToStore
retrieveStore ==
  /\ run[0].op = "retrieveMasterKeypair" /\ run[0].pc = "unwrapping"
  /\ LET tempKey == importKeyMaterial(run[0].key)
         privateKey == unwrapPrivateKey(run[0].mk.privateKey, tempKey)
     IN IF privateKey = <<>>
          THEN /\ run' = [run EXCEPT ![0] = Reject(@, "OperationError")]
               /\ UNCHANGED idb
          ELSE /\ run' = [run EXCEPT ![0] = [@ EXCEPT !.pc = "awaitStore", !.kp = privateKey[2]]]
               /\ idb' = idb \cup
                    {[StoreRequest(0, TRUE) EXCEPT
                        !.publicKey = importPublicKey(run[0].mk.publicKey),
                        !.privateKey = privateKey]}
  /\ UNCHANGED <<hashParams, authKeyMaterial, token, user, keys, worker, srvKeys, nops, registered, nameVars>>

\* ---------------------------------------------------- the 'keys' store
\* One addToStore call completes.  An id of 0 is no valid key; on an id
\* already present the store either replaces the entry or refuses it.
addToStore ==
  \E w \in idb, accepted \in BOOLEAN :
    /\ accepted => w.id # 0
    /\ ~accepted => (w.id = 0 \/ keys[w.id] # NoEntry)
    /\ idb' = idb \ {w}
    /\ keys' = IF accepted
                 THEN [keys EXCEPT ![w.id] = [publicKey |-> w.publicKey, privateKey |-> w.privateKey]]
                 ELSE keys
    /\ run' = IF w.awaited
                THEN [run EXCEPT ![w.owner] =
                        IF accepted THEN Resolve([@ EXCEPT !.wrote = @ \cup {"keys"}], "resolved")
                        ELSE Reject(@, "IDB error")]
                ELSE run
    /\ UNCHANGED <<hashParams, authKeyMaterial, token, user, worker, srvKeys, nops, registered, nameVars>>

Next ==
  \/ loadArgon2
  \/ loadArgon2Response
  \/ authenticate
  \/ \E r \in RunIds : authenticateChallenge(r)
  \/ \E r \in RunIds : authenticateHash(r)
  \/ \E r \in RunIds : authenticateSubmit(r)
  \/ register
  \/ registerHash
  \/ registerResponse
  \/ generateMasterKeypair
  \/ generateHash
  \/ generatePost
  \/ generateResponse
  \/ retrieveMasterKeypair
  \/ retrieveResponse
  \/ retrieveHash
  \/ retrieveStore
  \/ addToStore

Spec == Init /\ [][Next]_vars

\* The server answers every request of authenticate and the worker answers
\* every hash request of authenticate: a response that can be delivered is
\* delivered, and the run is resumed with it.
Responsive ==
  \A r \in RunIds :
    /\ WF_vars(authenticateChallenge(r))
    /\ WF_vars(authenticateHash(r))
    /\ WF_vars(authenticateSubmit(r))
FairSpec == Spec /\ Responsive

\* ------------------------------------------------------ user-name store
\* The store is another object of the same client.  Of the login state it
\* reads the user id, the session token and the 'keys' store and writes
\* nothing, so its methods are run from the state of a page loaded in a
\* session that is already open.  Its caller awaits each call.
NameSettled == nameCall.pc \in {"idle", "done"}
NameCallerMay == NameSettled /\ ncalls < MaxNameCalls
NameReturned(rec) == [rec EXCEPT !.pc = "done", !.document = NoDocument, !.final = initialState]
NameResolve(rec) == [NameReturned(rec) EXCEPT !.outcome = "resolved"]
NameReject(rec, m) == [NameReturned(rec) EXCEPT !.outcome = "rejected", !.msg = m]
NewCall(op) == [IdleCall EXCEPT !.op = op, !.pc = "start", !.userID = user.id, !.after = completed]

\* mustGetByKey('keys', userID) finds the master keys
HasMasterKeys(id) == keys[id] # NoEntry
\* cached != null && cached.checksum === document.meta.checksum
CacheMatches(cached, document) == cached # initialState /\ cached.checksum = document.checksum

init ==
  /\ NameCallerMay
  /\ ncalls' = ncalls + 1
  /\ IF initialized
       THEN /\ nameCall' = NameResolve(NewCall("init"))
            /\ completed' = TRUE
       ELSE /\ nameCall' = [NewCall("init") EXCEPT !.pc = "awaitName", !.fetched = TRUE]
            /\ UNCHANGED completed
  /\ UNCHANGED <<initialized, userName, userNames, srvName, loginVars>>

\* GET /name is answered: 204 when the server holds no name, 200 with the
\* document when it holds one, or an error
initResponse ==
  /\ nameCall.op = "init" /\ nameCall.pc = "awaitName"
  /\ \E status \in NameStatuses :
       LET rec == [nameCall EXCEPT !.status = status] IN
       \/ /\ status = 204 /\ srvName = NoDocument
          /\ initialized' = TRUE
          /\ completed' = TRUE
          /\ nameCall' = NameResolve(rec)
       \/ /\ status # 204 /\ status # 200
          /\ \E m \in ServerMsgs :
               nameCall' = NameReject(rec, ErrorMessage(m, "failed to retrieve name from server"))
          /\ UNCHANGED <<initialized, completed>>
       \/ /\ status = 200 /\ srvName # NoDocument
          /\ nameCall' = [rec EXCEPT !.pc = "awaitCached", !.document = srvName]
          /\ UNCHANGED <<initialized, completed>>
  /\ UNCHANGED <<userName, userNames, srvName, ncalls, loginVars>>

\* getByKey('user-name', userID) has returned: the cached name is taken if
\* its checksum is the document's, else the document is decrypted, set and
\* handed to updateWithKey
initCached ==
  /\ nameCall.op = "init" /\ nameCall.pc = "awaitCached"
  /\ LET cached == userNames[nameCall.userID]
         final == [id |-> nameCall.userID, checksum |-> nameCall.document.checksum]
     IN IF CacheMatches(cached, nameCall.document)
          THEN /\ userName' = cached
               /\ nameCall' = NameResolve(nameCall)
               /\ completed' = TRUE
          ELSE IF nameCall.document.encrypted /\ ~HasMasterKeys(nameCall.userID)
          THEN /\ nameCall' = NameReject(nameCall, "key not found")
               /\ UNCHANGED <<userName, completed>>
          ELSE /\ userName' = final
               /\ nameCall' = [nameCall EXCEPT !.pc = "awaitUpdate", !.final = final]
               /\ UNCHANGED completed
  /\ UNCHANGED <<initialized, userNames, srvName, ncalls, loginVars>>

\* updateWithKey('user-name', final) has completed, then initialized = true
initUpdate ==
  /\ nameCall.op = "init" /\ nameCall.pc = "awaitUpdate"
  /\ \E ok \in BOOLEAN :
       IF ok
         THEN /\ userNames' = [userNames EXCEPT ![nameCall.final.id] = nameCall.final]
              /\ initialized' = TRUE
              /\ completed' = TRUE
              /\ nameCall' = NameResolve(nameCall)
         ELSE /\ nameCall' = NameReject(nameCall, "IDB error")
              /\ UNCHANGED <<userNames, initialized, completed>>
  /\ UNCHANGED <<userName, srvName, ncalls, loginVars>>

\* create(name) up to its PATCH /name: the fields are encrypted under a new
\* key, which is wrapped under the master public key
nameCreate ==
  /\ NameCallerMay
  /\ ncalls' = ncalls + 1
  /\ \E encrypted \in BOOLEAN :
       nameCall' =
         IF encrypted /\ ~HasMasterKeys(user.id)
           THEN NameReject(NewCall("create"), "key not found")
           ELSE [NewCall("create") EXCEPT !.pc = "awaitPatch", !.fetched = TRUE,
                                          !.document = [checksum |-> 0, encrypted |-> encrypted]]
  /\ UNCHANGED <<initialized, userName, userNames, srvName, completed, loginVars>>

createResponse ==
  /\ nameCall.op = "create" /\ nameCall.pc = "awaitPatch"
  /\ \E status \in {200, 500} :
       LET rec == [nameCall EXCEPT !.status = status] IN
       \/ /\ status # 200
          /\ \E m \in ServerMsgs :
               nameCall' = NameReject(rec, ErrorMessage(m, "failed to submit name to server"))
          /\ UNCHANGED <<userName, srvName>>
       \/ /\ status = 200
          /\ \E c \in Checksums :
               LET final == [id |-> rec.userID, checksum |-> c] IN
               /\ srvName' = [checksum |-> c, encrypted |-> rec.document.encrypted]
               /\ userName' = final
               /\ nameCall' = [rec EXCEPT !.pc = "awaitAdd", !.final = final]
  /\ UNCHANGED <<initialized, userNames, completed, ncalls, loginVars>>

\* addToStore('user-name', final) has completed, then initialized = true; on
\* an id already present the store either replaces the entry or refuses it
createStored ==
  /\ nameCall.op = "create" /\ nameCall.pc = "awaitAdd"
  /\ \E accepted \in BOOLEAN :
       /\ ~accepted => userNames[nameCall.final.id] # initialState
       /\ IF accepted
            THEN /\ userNames' = [userNames EXCEPT ![nameCall.final.id] = nameCall.final]
                 /\ initialized' = TRUE
                 /\ nameCall' = NameResolve(nameCall)
            ELSE /\ nameCall' = NameReject(nameCall, "IDB error")
                 /\ UNCHANGED <<userNames, initialized>>
  /\ UNCHANGED <<userName, srvName, completed, ncalls, loginVars>>

nameDelete ==
  /\ NameCallerMay
  /\ ncalls' = ncalls + 1
  /\ nameCall' = [NewCall("delete") EXCEPT !.pc = "awaitDelete", !.fetched = TRUE]
  /\ UNCHANGED <<initialized, userName, userNames, srvName, completed, loginVars>>

deleteResponse ==
  /\ nameCall.op = "delete" /\ nameCall.pc = "awaitDelete"
  /\ \E status \in {204, 500} :
       LET rec == [nameCall EXCEPT !.status = status] IN
       \/ /\ status # 204
          /\ \E m \in ServerMsgs :
               nameCall' = NameReject(rec, ErrorMessage(m, "failed to delete name from server"))
          /\ UNCHANGED srvName
       \/ /\ status = 204
          /\ srvName' = NoDocument
          /\ nameCall' = NameResolve(rec)
  /\ UNCHANGED <<initialized, userName, userNames, completed, ncalls, loginVars>>

\* A page loaded in an open session: the token and the user are in
\* localStorage, the 'keys' and 'user-name' stores hold what earlier page
\* loads left there, and the objects of the page are new.
MasterKeys(k) == [publicKey |-> generatePublicKey(k), privateKey |-> generatePrivateKey(k)]
NameInit ==
  /\ hashParams = DefaultHashParams
  /\ authKeyMaterial = <<>>
  /\ token \in Tokens
  /\ user \in {[email |-> e, id |-> i] : e \in Emails, i \in UserIds}
  /\ keys \in {[i \in {0} \cup UserIds |-> IF i = user.id THEN e ELSE NoEntry] :
                 e \in {NoEntry} \cup {MasterKeys(k) : k \in KeyIds}}
  /\ idb = {}
  /\ worker = [loaded |-> FALSE, reqs |-> {}]
  /\ srvKeys = NoKeys
  /\ run = [r \in RunIds |-> IdleRun]
  /\ registered = <<>>
  /\ nops = 0
  /\ initialized = FALSE
  /\ userName = initialState
  /\ userNames \in {[i \in {0} \cup UserIds |-> IF i = user.id THEN n ELSE initialState] :
                      n \in {initialState} \cup {[id |-> user.id, checksum |-> c] : c \in Checksums}}
  /\ srvName \in {NoDocument} \cup Documents
  /\ nameCall = IdleCall
  /\ completed = FALSE
  /\ ncalls = 0

NameNext ==
  \/ init
  \/ initResponse
  \/ initCached
  \/ initUpdate
  \/ nameCreate
  \/ createResponse
  \/ createStored
  \/ nameDelete
  \/ deleteResponse

NameSpec == NameInit /\ [][NameNext]_vars

\* ================================================================ claims
SecretFields(q) == {q.key, q.data, q.publicKey, q.privateKey, q.hashSalt}
Revealed(q) == UNION {Reveals(f) : f \in SecretFields(q)}
InFlight == {run[r].req : r \in RunIds} \ {NoReq}
AuthRuns == {r \in RunIds : run[r].op = "authenticate"}

\* C1: an authenticate run writes the session token and the logged-in
\* identity only after its challenge request returned 201 and its submit
\* returned 200; a run that ended any other way wrote neither.
C1_SessionOnlyAfterSuccess ==
  \A r \in AuthRuns :
    /\ run[r].wrote \cap {"token", "user"} # {} =>
         run[r].reqStatus = 201 /\ run[r].subStatus = 200 /\ run[r].outcome = "Success"
    /\ run[r].pc = "done" /\ ~(run[r].reqStatus = 201 /\ run[r].subStatus = 200) =>
         run[r].wrote \cap {"token", "user"} = {}
C1_Witness ==
  \E r \in AuthRuns : run[r].outcome = "Success" /\ {"token", "user"} \subseteq run[r].wrote /\ token # NoToken

\* C2 (as claimed): no request on the wire gives away the password or any
\* argon2-derived key material.
C2_NoSecretOnWire ==
  \A q \in InFlight : \A x \in Revealed(q) : x[1] \notin {1, 2}

\* C2 (amended): no request gives away the password; the only request that
\* gives away derived key material is POST /register, whose key field is
\* salt || authentication key of that registration; the requests of
\* authenticate, generateMasterKeypair and retrieveMasterKeypair give away
\* no key material, so the temp key never leaves the client.
C2_OnlyRegisterSendsAuthKey ==
  \A r \in RunIds :
    LET q == run[r].req IN
    q # NoReq =>
      /\ \A x \in Revealed(q) : x[1] # 1
      /\ q.kind # "register" => \A x \in Revealed(q) : x[1] # 2
      /\ q.kind = "register" =>
           /\ run[r].op = "register"
           /\ Reveals(q.key) = {run[r].key}
           /\ q.key = encode(ABconcat(run[r].salt, run[r].key))
           /\ \A f \in SecretFields(q) \ {q.key} : Reveals(f) = {}
C2_Witness ==
  /\ \E r \in RunIds : run[r].req.kind = "register" /\ run[r].key # <<>>
                        /\ run[r].key \in Revealed(run[r].req)

\* C3: the master private key is never on the wire in plaintext: no request
\* gives away a private key, and the privateKey field of POST /keys is the
\* key wrapped under the temp key derived in that run.
C3_PrivateKeyOnlyWrapped ==
  \A r \in RunIds :
    LET q == run[r].req IN
    q # NoReq =>
      /\ \A x \in Revealed(q) : x[1] # 8
      /\ q.kind = "keys-post" =>
           /\ q.privateKey = <<5, run[r].kp>> \o run[r].key
           /\ run[r].key # <<>>
C3_Witness ==
  \E r \in RunIds : run[r].req.kind = "keys-post" /\ run[r].req.privateKey[1] = 5

\* C4: no master keypair is uploaded whose hashSalt is the salt that derived
\* the authentication key of the registration made on this instance.
C4_WrapSaltDiffersFromAuthSalt ==
  \A q \in InFlight :
    q.kind = "keys-post" /\ registered # <<>> => decode(q.hashSalt) # registered

C6_TOTPRequiredIsNotAFailure ==
  \A r \in AuthRuns :
    /\ run[r].reqStatus = 412 =>
         /\ run[r].pc = "done" /\ run[r].outcome = "TOTPRequired"
         /\ run[r].nHash = 0 /\ run[r].nSubmit = 0 /\ run[r].wrote = {}
    /\ run[r].outcome = "TOTPRequired" => run[r].reqStatus = 412
C6_Witness ==
  \E r \in AuthRuns : run[r].reqStatus = 412 /\ run[r].outcome = "TOTPRequired"

\* C7: when register has resolved after a 201, the authenticate run it
\* started has reached a terminal outcome.
StartedBy(seq) == {b \in BgIds : run[b].op = "authenticate" /\ run[b].parent = seq}
C7_RegisterCompletesLogin ==
  run[0].op = "register" /\ run[0].pc = "done" /\ run[0].outcome = "resolved" =>
    \A b \in StartedBy(run[0].seq) : run[b].pc = "done"

\* C8: when the authenticate run started by register fails, the caller of
\* register gets a failure, not a normal completion.
C8_LoginFailureReachesCaller ==
  run[0].op = "register" /\ run[0].pc = "done" =>
    \A b \in StartedBy(run[0].seq) :
      run[b].pc = "done" /\ run[b].outcome = "rejected" => run[0].outcome = "rejected"

\* C9: when retrieveMasterKeypair is given exactly the record a successful
\* generateMasterKeypair stored, and the password that wrapped it, the temp
\* key it derives is the temp key the private key was wrapped under (so the
\* unwrap yields the generated private key).
C9_CustodyRoundTrip ==
  run[0].op = "retrieveMasterKeypair" /\ run[0].pc = "unwrapping"
  /\ run[0].mk = srvKeys /\ run[0].mk.privateKey[4] = run[0].pw =>
    /\ UnwrapOK(run[0].mk.privateKey, importKeyMaterial(run[0].key))
    /\ unwrapPrivateKey(run[0].mk.privateKey, importKeyMaterial(run[0].key))
         = generatePrivateKey(run[0].mk.privateKey[2])

\* C10: with a caller that awaits each call before the next, the worker of
\* the instance never holds more than one unanswered hash request, also
\* while a login started by register is still in flight.
C10_OneOutstandingHash ==
  Cardinality(Outstanding) <= 1
C10_Witness ==
  /\ Cardinality(Outstanding) = 1
  /\ \E b \in BgIds : run[b].op = "authenticate" /\ run[b].pc # "done"

\* C11: a run whose worker answer was not ARGON2_OK failed with the argon2
\* failure and stopped there: it holds no key, has no request on the wire
\* and no store write pending; authenticate sent no submit and wrote no
\* session state, register and generateMasterKeypair sent no request at
\* all, retrieveMasterKeypair wrote nothing to the keys store; and no run
\* went on past the hash on anything but ARGON2_OK.
Argon2Failures == {"Error running argon2.", "Error loading argon2."}
PastHash == {"awaitSubmit", "awaitRegister", "wrapping", "awaitKeysPost", "unwrapping", "awaitStore"}
C11_DerivationErrorStops ==
  \A r \in RunIds :
    /\ run[r].code = "error" =>
         /\ run[r].pc = "done" /\ run[r].outcome = "rejected" /\ run[r].msg \in Argon2Failures
         /\ run[r].key = <<>> /\ run[r].req = NoReq
         /\ run[r].nSubmit = 0
         /\ run[r].wrote \cap {"token", "user", "keys", "authKeyMaterial"} = {}
         /\ run[r].op \in {"register", "generateMasterKeypair"} => run[r].nReq = 0
         /\ \A w \in idb : ~(w.owner = r /\ w.seq = run[r].seq)
    /\ run[r].pc \in PastHash /\ run[r].nHash > 0 => run[r].code = "ARGON2_OK"
    /\ run[r].msg \in Argon2Failures => run[r].code = "error"
C11_Witness ==
  /\ \E r \in RunIds : run[r].op = "authenticate" /\ run[r].code = "error" /\ run[r].reqStatus = 201
  /\ authKeyMaterial # <<>>

\* C12: while an authenticate run waits for its hash, it is a run without
\* reuseAuthKey and the one request it has at the worker carries the
\* decoded salt and the timeCost, memoryCost and threads of the challenge
\* that run received.
C12_HashUsesChallengeParams ==
  \A r \in AuthRuns :
    run[r].pc = "awaitHash" =>
      /\ ~run[r].reuse /\ run[r].reqStatus = 201
      /\ \E q \in worker.reqs : q.owner = r
      /\ \A q \in worker.reqs :
           q.owner = r =>
             /\ q.action = "Hash2i" /\ q.password = run[r].pw
             /\ q.salt = decode(run[r].ch.salt)
             /\ q.timeCost = run[r].ch.hashParams.timeCost
             /\ q.memoryCost = run[r].ch.hashParams.memoryCost
             /\ q.threads = run[r].ch.hashParams.threads
C12_Witness ==
  \E r \in AuthRuns :
    /\ run[r].pc = "awaitHash" /\ run[r].ch.hashParams = ServerHashParams
    /\ registered # <<>>
    /\ RequestOf(r).timeCost = ServerHashParams.timeCost

\* C13: the hashParams in a POST /keys body are the timeCost, memoryCost
\* and threads of the hash request that derived the temp key the private
\* key in that body is wrapped under.
C13_StoredParamsAreWrappingParams ==
  \A r \in RunIds :
    run[r].req.kind = "keys-post" =>
      /\ run[r].req.hashParams.timeCost = run[r].hashed.timeCost
      /\ run[r].req.hashParams.memoryCost = run[r].hashed.memoryCost
      /\ run[r].req.hashParams.threads = run[r].hashed.threads

\* C14: once the caller's authenticate or register call has failed on a
\* hash request the worker answered with an error, the instance holds no
\* authentication key material.
C14_KeyDroppedOnDerivationFailure ==
  run[0].op \in {"authenticate", "register"} /\ run[0].pc = "done" /\ run[0].code = "error" =>
    authKeyMaterial = <<>>

\* C15: an authenticate run sends exactly one challenge request, at most
\* one hash request and at most one submit, in that order: nothing else
\* has happened while the challenge request is out; a hash request was
\* posted only by a run without reuseAuthKey after a 201; a submit was sent
\* only after a 201 and, without reuseAuthKey, after the hash was answered
\* ARGON2_OK; the submit on the wire carries the id of the challenge that
\* run received and that challenge's data decrypted under the run's key;
\* and a run has an outcome exactly when it is done.
C15_ProtocolOrder ==
  \A r \in AuthRuns :
    /\ run[r].nReq = 1 /\ run[r].nHash <= 1 /\ run[r].nSubmit <= 1
    /\ run[r].pc \in {"awaitChallenge", "awaitHash", "awaitSubmit", "done"}
    /\ run[r].pc = "awaitChallenge" =>
         /\ run[r].req.kind = "challenge-request"
         /\ run[r].reqStatus = 0 /\ run[r].nHash = 0 /\ run[r].nSubmit = 0
         /\ run[r].ch = NoChallenge
    /\ run[r].nHash = 1 => run[r].reqStatus = 201 /\ ~run[r].reuse
    /\ run[r].pc = "awaitHash" =>
         run[r].nHash = 1 /\ run[r].nSubmit = 0 /\ run[r].req = NoReq /\ run[r].code = "none"
    /\ run[r].nSubmit = 1 =>
         /\ run[r].reqStatus = 201
         /\ run[r].reuse \/ (run[r].nHash = 1 /\ run[r].code = "ARGON2_OK")
    /\ run[r].pc = "awaitSubmit" =>
         /\ run[r].nSubmit = 1 /\ run[r].subStatus = 0 /\ run[r].key # <<>>
         /\ run[r].req.kind = "challenge-submit"
         /\ run[r].ch.id \in ChallengeIds /\ run[r].req.cid = run[r].ch.id
         /\ run[r].req.data =
              encode(decryptCTR(importKeyCTR(run[r].key), decode(run[r].ch.data)))
         /\ \A x \in AuthRuns \ {r} : run[x].ch.id # run[r].req.cid
    /\ run[r].subStatus # 0 => run[r].nSubmit = 1 /\ run[r].pc = "done"
    /\ run[r].outcome = "Success" => run[r].subStatus = 200
    /\ (run[r].pc = "done") = (run[r].outcome \in {"Success", "TOTPRequired", "rejected"})
C15_Witness ==
  \E r, x \in AuthRuns :
    /\ r # x /\ run[r].pc = "awaitSubmit" /\ run[x].pc = "awaitSubmit"
    /\ run[r].nHash = 1 /\ run[x].reuse
    /\ run[r].req.cid # run[x].req.cid

\* C16: a run of authenticate with reuseAuthKey has no hash request at the
\* worker, ever; when it goes from its challenge to its submit it decrypts
\* with the authKeyMaterial of the instance, which it leaves as it is;
\* authKeyMaterial changes only when the hash of a register or of an
\* authenticate without reuseAuthKey is answered ARGON2_OK, and then to that
\* hash; the step that answers the hash of generateMasterKeypair or
\* retrieveMasterKeypair leaves it unchanged.
AuthKeyDerived(r) ==
  /\ run[r].op \in {"register", "authenticate"} /\ ~run[r].reuse
  /\ run[r].pc = "awaitHash" /\ run'[r].code = "ARGON2_OK"
  /\ authKeyMaterial' = HashOf(RequestOf(r))
C16_Step ==
  /\ \A r \in RunIds :
       run'[r].op = "authenticate" /\ run'[r].reuse =>
         /\ run'[r].nHash = 0
         /\ \A q \in worker'.reqs : q.owner # r
  /\ \A r \in RunIds :
       /\ run[r].op = "authenticate" /\ run[r].reuse
       /\ run[r].pc = "awaitChallenge" /\ run'[r].pc = "awaitSubmit"
       => /\ authKeyMaterial' = authKeyMaterial
          /\ run'[r].key = authKeyMaterial
          /\ run'[r].req.data =
               encode(decryptCTR(importKeyCTR(authKeyMaterial), decode(run'[r].ch.data)))
  /\ authKeyMaterial' # authKeyMaterial => \E r \in RunIds : AuthKeyDerived(r)
  /\ /\ run[0].op \in {"generateMasterKeypair", "retrieveMasterKeypair"}
     /\ run[0].pc = "awaitHash" /\ run'[0].pc # "awaitHash"
     => authKeyMaterial' = authKeyMaterial
C16_ReuseKeepsAuthKey == [][C16_Step]_vars
C16_Witness ==
  \E b \in BgIds :
    /\ run[b].op = "authenticate" /\ run[b].reuse /\ run[b].pc = "awaitSubmit"
    /\ run[0].op = "generateMasterKeypair" /\ run[0].pc = "wrapping"
    /\ run[b].key = authKeyMaterial /\ run[0].key # authKeyMaterial

\* C17: generateMasterKeypair has issued a write to the 'keys' store only
\* if POST /keys returned 201 and the call resolved; a call that found no
\* session token failed without sending a request; a call whose POST /keys
\* returned another status failed with the server's message or the
\* fallback; and POST /keys is only ever sent with a token.
NoTokenMessage == "Failed to retrieve CSRF-Token from localstorage."
StoreFailures == {ErrorMessage(m, "Failed to store master keypair") : m \in ServerMsgs}
IssuedBy(r) == {w \in idb : w.owner = r /\ w.seq = run[r].seq}
C17_KeysStoreOnlyOnSuccess ==
  run[0].op = "generateMasterKeypair" =>
    /\ IssuedBy(0) # {} => run[0].outcome = "resolved" /\ run[0].reqStatus = 201
    /\ run[0].outcome = "rejected" => IssuedBy(0) = {} /\ "keys" \notin run[0].wrote
    /\ run[0].msg = NoTokenMessage => run[0].nReq = 0 /\ run[0].reqStatus = 0
    /\ run[0].reqStatus \notin {0, 201} =>
         /\ run[0].pc = "done" /\ run[0].outcome = "rejected"
         /\ run[0].msg \in StoreFailures
    /\ run[0].pc = "awaitKeysPost" => run[0].req.csrf # NoToken /\ token # NoToken
C17_Witness ==
  /\ run[0].op = "generateMasterKeypair" /\ run[0].reqStatus = 500
  /\ run[0].msg = "Failed to store master keypair"
  /\ idb = {} /\ \A i \in DOMAIN keys : keys[i] = NoEntry

\* C18: when the caller's generateMasterKeypair or retrieveMasterKeypair
\* call has resolved, the 'keys' store holds a public key and a plaintext
\* private key under the id of the logged-in user.
C18_StoredWhenResolved ==
  /\ run[0].op \in {"generateMasterKeypair", "retrieveMasterKeypair"}
  /\ run[0].pc = "done" /\ run[0].outcome = "resolved"
  => /\ user.id # 0
     /\ keys[user.id] # NoEntry
     /\ keys[user.id].publicKey[1] = 7 /\ keys[user.id].privateKey[1] = 8

\* C19: with a server and a worker that answer, every authenticate run
\* that is suspended (at its challenge request, its hash request or its
\* submit) is eventually done, with one of the outcomes Success,
\* TOTPRequired or a failure.
Suspended(r) ==
  run[r].op = "authenticate" /\ run[r].pc \in {"awaitChallenge", "awaitHash", "awaitSubmit"}
Terminated(r) ==
  /\ run[r].op = "authenticate" /\ run[r].pc = "done"
  /\ run[r].outcome \in {"Success", "TOTPRequired", "rejected"}
C19_AuthenticateTerminates ==
  \A r \in RunIds : Suspended(r) ~> Terminated(r)
C19_Witness ==
  \E r \in RunIds :
    /\ Terminated(r) /\ run[r].nHash = 1 /\ run[r].nSubmit = 1
    /\ run[r].outcome = "rejected" /\ run[r].subStatus = 500

\* C20: an authenticate run with reuseAuthKey that receives its challenge
\* while authKeyMaterial is null fails in that step: no submit is sent, and
\* the session token and the logged-in identity stay as they were; and no
\* submit on the wire was computed without key material.
C20_Step ==
  \A r \in RunIds :
    /\ run[r].op = "authenticate" /\ run[r].reuse /\ run[r].pc = "awaitChallenge"
    /\ run'[r].reqStatus = 201 /\ authKeyMaterial = <<>>
    => /\ run'[r].pc = "done" /\ run'[r].outcome = "rejected"
       /\ run'[r].nSubmit = 0 /\ run'[r].req = NoReq
       /\ run'[r].wrote \cap {"token", "user"} = {}
       /\ token' = token /\ user' = user
C20_NoSubmitWithoutKey ==
  [][/\ C20_Step
     /\ \A r \in RunIds :
          run'[r].req.kind = "challenge-submit" =>
            run'[r].key # <<>> /\ Len(decode(run'[r].req.data)) > 2]_vars
C20_Witness ==
  /\ run[0].op = "authenticate" /\ run[0].reuse /\ run[0].reqStatus = 201
  /\ run[0].pc = "done" /\ run[0].outcome = "rejected" /\ run[0].msg = "TypeError"
  /\ authKeyMaterial = <<>> /\ token = NoToken /\ user = NoUser

\* C21: an init call made after some init call has completed without
\* error issues no fetch to /name.
C21_InitIdempotent ==
  nameCall.op = "init" /\ nameCall.after => ~nameCall.fetched

====
